---- MODULE Spec2Model ----
(***************************************************************************)
(* Model of Py-Hydra: the Hydra wrapper class (src/phydra.py), its result  *)
(* parser (src/modules/hydraparser.py) and its exception classes           *)
(* (src/errors/errors.py, src/errors/exceptions.py).                       *)
(*                                                                         *)
(* Representation of Python values:                                        *)
(*   - a str is a sequence of one-character strings, so that str.lower()   *)
(*     and int(str) are computed and not assumed;                          *)
(*   - a path is a sequence of components, absolute iff it starts with "/";*)
(*   - an argument is a record with a type tag t, checked by isinstance;   *)
(*   - an exception is a record [cls, text, lines, path];                  *)
(*   - a command line is the sequence of its whitespace-separated tokens.  *)
(***************************************************************************)
EXTENDS Integers, Sequences, FiniteSets, TLC

\* ------------------------------------------------------------------ bounds
\* largest requested thread count explored
MaxThreads == 65
\* longest captured stderr (in lines) explored by SpecRunner
MaxLines == 3
\* longest results array explored by SpecParser
MaxEntries == 3

\* ------------------------------------------------------- program constants
\* `if threads >= 65`
ThreadLimit == 65
\* `self.threads = 64`
ThreadCeiling == 64
\* `self.threads: int = 4`
DefaultThreads == 4

\* ------------------------------------------------------------ Python values
NoneV == [t |-> "none", v |-> <<>>, n |-> 0]
StrV(s) == [t |-> "str", v |-> s, n |-> 0]
IntV(k) == [t |-> "int", v |-> <<>>, n |-> k]
BoolV(b) == [t |-> "bool", v |-> <<>>, n |-> IF b THEN 1 ELSE 0]
\* a value of a type none of the isinstance checks accepts (a list)
ListV == [t |-> "list", v |-> <<>>, n |-> 0]

\* isinstance(x, str)
IsStr(x) == x.t = "str"
\* isinstance(x, int): bool is a subclass of int
IsInt(x) == x.t \in {"int", "bool"}
\* isinstance(x, bool)
IsBool(x) == x.t = "bool"

\* str.lower() on one character
LowerChar(c) ==
  CASE c = "S" -> "s"
    [] c = "H" -> "h"
    [] c = "V" -> "v"
    [] c = "N" -> "n"
    [] c = "C" -> "c"
    [] c = "I" -> "i"
    [] c = "R" -> "r"
    [] c = "J" -> "j"
    [] c = "O" -> "o"
    [] c = "X" -> "x"
    [] OTHER -> c

\* the string is left as it is
LowerIdentity(s) == s

\* str.lower()
Lower(s) == [i \in 1..Len(s) |-> LowerChar(s[i])]

Digits == <<"0", "1", "2", "3", "4", "5", "6", "7", "8", "9">>

IsDigit(c) == \E d \in 1..10 : Digits[d] = c

DigitVal(c) == (CHOOSE d \in 1..10 : Digits[d] = c) - 1

\* int(s) succeeds on a non-empty string of decimal digits (the inputs
\* explored carry no sign, blank or underscore)
IntParses(s) == Len(s) > 0 /\ \A i \in 1..Len(s) : IsDigit(s[i])

RECURSIVE IntOfStr(_)
IntOfStr(s) ==
  IF s = <<>> THEN 0
  ELSE 10 * IntOfStr(SubSeq(s, 1, Len(s) - 1)) + DigitVal(s[Len(s)])

\* x in list
InList(x, list) == \E i \in 1..Len(list) : list[i] = x

\* ---------------------------------------------------------------- the paths
Cwd == <<"/", "home">>

\* os.path.abspath
AbsPath(p) == IF Len(p) > 0 /\ p[1] = "/" THEN p ELSE Cwd \o p

\* os.path.isfile against the filesystem fs (the set of absolute paths that
\* are regular files)
IsFile(p, fs) == AbsPath(p) \in fs

WordlistFile == <<"w.txt">>
LiteralName == <<"root">>
Files == {AbsPath(WordlistFile)}
\* tmp_file.name
TmpName == <<"/", "tmp", "tmpfile">>
HydraPath == <<"/", "usr", "bin", "hydra">>

\* ----------------------------------------------------------- the exceptions
NoErr == [cls |-> "none", text |-> "", lines |-> <<>>, path |-> <<>>]
Err(cls, text) == [cls |-> cls, text |-> text, lines |-> <<>>, path |-> <<>>]
ErrLines(cls, text, lines) == [cls |-> cls, text |-> text, lines |-> lines, path |-> <<>>]
ErrPath(cls, text, path) == [cls |-> cls, text |-> text, lines |-> <<>>, path |-> path]

\* the subclasses of CriticalException
CriticalClasses ==
  {"HydraError", "UnknownHydraError", "HydraDecodeError",
   "HydraUnsupportedServiceError", "HydraUnknownServiceError",
   "HydraFileDoesNotExist", "HydraNoWordlistGiven"}

\* one logging call
LogEvent(level, text, lines, path) ==
  [level |-> level, text |-> text, lines |-> lines, path |-> path]

\* the constructor logs nothing
CriticalLogNothing(e) == <<>>

\* CriticalException.__init__ calls self.log(*args): logging.critical of the
\* message; the built-in exceptions log nothing
CriticalLog(e) ==
  IF e.cls \in CriticalClasses
  THEN <<LogEvent("critical", e.text, e.lines, e.path)>>
  ELSE <<>>

\* ------------------------------------------------------ Hydra.__init__ data
\* self.hydra_args
HydraArgs ==
  [UserWordlist |-> "-L", Username |-> "-l", PassWordlist |-> "-P",
   Password |-> "-p", Threads |-> "-t", OutputFilename |-> "-o",
   OutputType |-> "-b", IgnoreRestoreFile |-> "-I", Port |-> "-s",
   UserPassWordlist |-> "-C"]

ExpText == <<"t", "e", "x", "t">>
ExpJson == <<"j", "s", "o", "n">>
ExpJsonV1 == <<"j", "s", "o", "n", "v", "1">>
ExpJsonUpper == <<"J", "S", "O", "N">>

\* self.valid_outputs
ValidOutputs == <<ExpText, ExpJson, ExpJsonV1>>

SvcSsh == <<"s", "s", "h">>
SvcSshUpper == <<"S", "S", "H">>
SvcVnc == <<"v", "n", "c">>
SvcIrc == <<"i", "r", "c">>
SvcIrcUpper == <<"I", "R", "C">>
SvcXyz == <<"x", "y", "z">>

\* self.service_without_user
ServiceWithoutUser ==
  << <<"r", "e", "d", "i", "s">>,
     <<"a", "d", "a", "m", "6", "5", "0", "0">>,
     <<"c", "i", "s", "c", "o">>,
     <<"o", "r", "a", "c", "l", "e", "-", "l", "i", "s", "t", "e", "n", "e", "r">>,
     <<"s", "7", "-", "3", "0", "0">>,
     <<"s", "n", "m", "p">>,
     SvcVnc >>

\* self.supported_services: the lines of services/supported_services.  The
\* data file is not part of the sources; two of its lines stand for it, one
\* of them a service without a user name.
SupportedServices == <<SvcSsh, SvcVnc>>

\* self.unsupported_services: the lines of services/special_services, stood
\* for by one line.
UnsupportedServices == <<SvcIrc>>

\* --------------------------------------------------------------- validation
\* the result of the argument checks: the exception raised (NoErr when the
\* checks pass), the log events emitted, and the value of self.threads
ValResult(e, lg, th) == [err |-> e, log |-> lg \o CriticalLog(e), threads |-> th]

\* ExceptionMessages.invalid_type in a TypeError
InvalidType(param) == Err("TypeError", param)

\* int(port)
PortInt(p) == IF IsStr(p) THEN IntOfStr(p.v) ELSE p.n

\* the clamp written to self.threads
ClampThreads(threads) ==
  IF threads >= ThreadLimit THEN ThreadCeiling ELSE threads

\* the membership tests on the lower-cased service
ServiceCheck(service) ==
  IF ~InList(service, SupportedServices)
  THEN IF InList(service, UnsupportedServices)
       THEN ErrLines("HydraUnsupportedServiceError", "Unsupported service given", <<service>>)
       ELSE ErrLines("HydraUnknownServiceError", "Unknown service", <<service>>)
  ELSE NoErr

\* the membership test on the lower-cased export type
ExportCheckLowered(export) ==
  IF ~InList(Lower(export), ValidOutputs)
  THEN ErrLines("ValueError", "not a valid export type", <<export>>)
  ELSE NoErr

\* the membership test on the export type as given
ExportCheck(export) ==
  IF ~InList(export, ValidOutputs)
  THEN ErrLines("ValueError", "not a valid export type", <<export>>)
  ELSE NoErr

\* self.threads is written after the service check has passed
CommonValidateWritingLate(a, pre, st, clampLevel) ==
  IF ~IsStr(a.service) THEN ValResult(InvalidType("service"), pre, st)
  ELSE IF ~IsStr(a.port) /\ ~IsInt(a.port) THEN ValResult(InvalidType("port"), pre, st)
  ELSE IF IsStr(a.port) /\ ~IntParses(a.port.v)
       THEN ValResult(ErrLines("ValueError", "The port number should be an integer", <<a.port.v>>), pre, st)
  ELSE IF ~IsInt(a.threads) THEN ValResult(InvalidType("threads"), pre, st)
  ELSE IF ~IsStr(a.export) THEN ValResult(InvalidType("export_type"), pre, st)
  ELSE IF ~IsBool(a.ignore) THEN ValResult(InvalidType("ignore_restore_file"), pre, st)
  ELSE IF ~IsInt(a.wait) THEN ValResult(InvalidType("wait_time"), pre, st)
  ELSE IF ExportCheck(a.export.v) # NoErr THEN ValResult(ExportCheck(a.export.v), pre, st)
  ELSE IF ServiceCheck(Lower(a.service.v)) # NoErr
       THEN ValResult(ServiceCheck(Lower(a.service.v)), pre, st)
  ELSE ValResult(NoErr, pre, ClampThreads(a.threads.n))

\* the checks both entry points share, from the service type check to the
\* service membership test; pre is the log so far, st the current
\* self.threads, clampLevel the level of the clamp message
CommonValidate(a, pre, st, clampLevel) ==
  IF ~IsStr(a.service) THEN ValResult(InvalidType("service"), pre, st)
  ELSE IF ~IsStr(a.port) /\ ~IsInt(a.port) THEN ValResult(InvalidType("port"), pre, st)
  ELSE IF IsStr(a.port) /\ ~IntParses(a.port.v)
       THEN ValResult(ErrLines("ValueError", "The port number should be an integer", <<a.port.v>>), pre, st)
  ELSE IF ~IsInt(a.threads) THEN ValResult(InvalidType("threads"), pre, st)
  ELSE IF ~IsStr(a.export) THEN ValResult(InvalidType("export_type"), pre, st)
  ELSE IF ~IsBool(a.ignore) THEN ValResult(InvalidType("ignore_restore_file"), pre, st)
  ELSE IF ~IsInt(a.wait) THEN ValResult(InvalidType("wait_time"), pre, st)
  ELSE IF ExportCheck(a.export.v) # NoErr THEN ValResult(ExportCheck(a.export.v), pre, st)
  ELSE LET clampLog == IF a.threads.n >= ThreadLimit
                       THEN <<LogEvent(clampLevel, "Threads given is too high", <<>>, <<>>)>>
                       ELSE <<>>
       IN ValResult(ServiceCheck(Lower(a.service.v)), pre \o clampLog, ClampThreads(a.threads.n))

\* Hydra.bruteforce up to the service check
ValidateDual(a, st) ==
  LET uLog == IF a.user.t = "none"
              THEN <<LogEvent("warning", "No user wordlist given", <<>>, <<>>)>> ELSE <<>>
      pLog == IF a.pass.t = "none"
              THEN <<LogEvent("warning", "No pass wordlist given", <<>>, <<>>)>> ELSE <<>>
  IN IF a.user.t # "none" /\ ~IsStr(a.user) THEN ValResult(InvalidType("user_wordlist"), <<>>, st)
     ELSE IF a.pass.t # "none" /\ ~IsStr(a.pass) THEN ValResult(InvalidType("pass_wordlist"), uLog, st)
     ELSE CommonValidate(a, uLog \o pLog, st, "info")

\* Hydra.bruteforce_with_userpass_wordlist up to the service check
ValidateUserpass(a, st, fs) ==
  IF ~IsStr(a.userpass) THEN ValResult(InvalidType("userpass_wordlist_path"), <<>>, st)
  ELSE IF ~IsFile(AbsPath(a.userpass.v), fs)
       THEN ValResult(Err("TypeError", "Wordlist path does not exist"), <<>>, st)
  ELSE CommonValidate(a, <<>>, st, "warning")

Validate(a, st, fs) ==
  IF a.mode = "dual" THEN ValidateDual(a, st) ELSE ValidateUserpass(a, st, fs)

\* ---------------------------------------------------------- command builder
Tok(k, s, n) == [k |-> k, s |-> s, n |-> n]
Flag(f) == Tok("flag", <<f>>, 0)
PathTok(p) == Tok("path", p, 0)
IntTok(n) == Tok("int", <<>>, n)
StrTok(s) == Tok("str", s, 0)

\* f"{self.hydra_path} {service}://{self.ip}:{port} -w {wait_time}"
BaseCommand(service, port, wait) ==
  <<PathTok(HydraPath), Tok("target", service, port), Flag("-w"), IntTok(wait)>>

\* Hydra._default_string_generator
DefaultStringGenerator(threads, outputFileName, exportType, ignoreRestoreFile) ==
  <<Flag(HydraArgs.Threads), IntTok(threads)>>
  \o <<Flag(HydraArgs.OutputFilename), PathTok(outputFileName)>>
  \o <<Flag(HydraArgs.OutputType), StrTok(exportType)>>
  \o (IF ignoreRestoreFile THEN <<Flag(HydraArgs.IgnoreRestoreFile)>> ELSE <<>>)

BuildResult(e, lg, c) == [err |-> e, log |-> lg \o CriticalLog(e), cmd |-> c]

\* Hydra._userpass_wordlist_string_generator
UserpassWordlistStringGenerator(threads, wait, service, port, exportType, ignore, userpass, out, fs) ==
  IF IsFile(userpass, fs)
  THEN BuildResult(NoErr, <<>>,
         BaseCommand(service, port, wait)
         \o <<Flag(HydraArgs.UserPassWordlist), PathTok(userpass)>>
         \o DefaultStringGenerator(threads, out, exportType, ignore))
  ELSE BuildResult(Err("HydraFileDoesNotExist", "Unable to find the file"), <<>>, <<>>)

\* the user part without the services-without-username exemption
UserPartAlwaysRequired(service, user, fs) ==
  IF user.t # "none"
  THEN IF IsFile(user.v, fs)
       THEN BuildResult(NoErr, <<>>, <<Flag(HydraArgs.UserWordlist), PathTok(user.v)>>)
       ELSE BuildResult(NoErr, <<>>, <<Flag(HydraArgs.Username), PathTok(user.v)>>)
  ELSE BuildResult(Err("HydraNoWordlistGiven", "user_wordlist is None"), <<>>, <<>>)

\* the user part of Hydra._user_and_pass_wordlists_string_generator
UserPart(service, user, fs) ==
  IF InList(service, ServiceWithoutUser)
  THEN BuildResult(NoErr, <<LogEvent("info", "This service doesn't need a user wordlist", <<>>, <<>>)>>, <<>>)
  ELSE IF user.t # "none"
       THEN IF IsFile(user.v, fs)
            THEN BuildResult(NoErr, <<>>, <<Flag(HydraArgs.UserWordlist), PathTok(user.v)>>)
            ELSE BuildResult(NoErr, <<LogEvent("debug", "Unable to find the file, using it as a username", <<>>, user.v)>>,
                             <<Flag(HydraArgs.Username), PathTok(user.v)>>)
       ELSE BuildResult(Err("HydraNoWordlistGiven", "user_wordlist is None"), <<>>, <<>>)

\* the password parameter is always handed over as a literal password
PassPartAlwaysLiteral(pass, fs) ==
  IF pass.t # "none"
  THEN BuildResult(NoErr, <<>>, <<Flag(HydraArgs.Password), PathTok(pass.v)>>)
  ELSE BuildResult(Err("HydraNoWordlistGiven", "pass_wordlist is None"), <<>>, <<>>)

\* the password part of Hydra._user_and_pass_wordlists_string_generator
PassPart(pass, fs) ==
  IF pass.t # "none"
  THEN IF IsFile(pass.v, fs)
       THEN BuildResult(NoErr, <<>>, <<Flag(HydraArgs.PassWordlist), PathTok(pass.v)>>)
       ELSE BuildResult(NoErr, <<LogEvent("debug", "Unable to find the file, using it as a password", <<>>, pass.v)>>,
                        <<Flag(HydraArgs.Password), PathTok(pass.v)>>)
  ELSE BuildResult(Err("HydraNoWordlistGiven", "pass_wordlist is None"), <<>>, <<>>)

\* a missing wordlist is left out of the command line
StringGeneratorSkippingNone(threads, wait, service, port, exportType, ignore, user, pass, out, fs) ==
  LET u == IF user.t = "none" THEN BuildResult(NoErr, <<>>, <<>>) ELSE UserPart(service, user, fs)
      p == IF pass.t = "none" THEN BuildResult(NoErr, <<>>, <<>>) ELSE PassPart(pass, fs)
  IN [err |-> NoErr, log |-> u.log \o p.log,
      cmd |-> BaseCommand(service, port, wait) \o u.cmd \o p.cmd
              \o DefaultStringGenerator(threads, out, exportType, ignore)]

\* Hydra._user_and_pass_wordlists_string_generator
UserAndPassWordlistsStringGenerator(threads, wait, service, port, exportType, ignore, user, pass, out, fs) ==
  LET u == UserPart(service, user, fs)
      p == PassPart(pass, fs)
  IN IF u.err # NoErr THEN [err |-> u.err, log |-> u.log, cmd |-> <<>>]
     ELSE IF p.err # NoErr THEN [err |-> p.err, log |-> u.log \o p.log, cmd |-> <<>>]
     ELSE [err |-> NoErr, log |-> u.log \o p.log,
           cmd |-> BaseCommand(service, port, wait) \o u.cmd \o p.cmd
                   \o DefaultStringGenerator(threads, out, exportType, ignore)]

\* the call of the string generator in the entry point: the arguments handed
\* over are the local threads, the lower-cased service and export type, the
\* converted port and, in the combined mode, the absolute wordlist path
BuildCommand(a, fs) ==
  IF a.mode = "dual"
  THEN UserAndPassWordlistsStringGenerator(a.threads.n, a.wait.n, Lower(a.service.v),
         PortInt(a.port), Lower(a.export.v), a.ignore.n = 1, a.user, a.pass, TmpName, fs)
  ELSE UserpassWordlistStringGenerator(a.threads.n, a.wait.n, Lower(a.service.v),
         PortInt(a.port), Lower(a.export.v), a.ignore.n = 1, AbsPath(a.userpass.v), TmpName, fs)

\* ------------------------------------------------------------ process runner
\* A captured line is the sequence of its words; a marker is a word.
ErrorMarker == "[ERROR]"
WarningMarker == "[WARNING]"
OnlyPassHint == "only using the -p or -P option"

\* marker in line, in place of line.startswith(marker)
StartsWithAnywhere(line, marker) == \E i \in 1..Len(line) : line[i] = marker

\* str.startswith(marker)
StartsWith(line, marker) == Len(line) > 0 /\ line[1] = marker

\* marker in line
Contains(line, word) == \E i \in 1..Len(line) : line[i] = word

\* stderr.decode().split("\n") on newline-terminated lines: the lines and the
\* empty string after the last newline
SplitLines(stderr) == stderr \o << <<>> >>

\* the first loop of _running_command: one warning per [WARNING] line
RECURSIVE WarningLog(_)
WarningLog(messages) ==
  IF messages = <<>> THEN <<>>
  ELSE (IF StartsWith(Head(messages), WarningMarker)
        THEN <<LogEvent("warning", "hydra warning", <<Head(messages)>>, <<>>)>>
        ELSE <<>>) \o WarningLog(Tail(messages))

\* the second loop of _running_command, entered when the exit code is not
\* zero: the exception raised and the log events emitted on the way
RECURSIVE ErrorScan(_, _)
ErrorScan(messages, all) ==
  IF messages = <<>>
  THEN [err |-> ErrLines("UnknownHydraError", "unknown", all), log |-> <<>>]
  ELSE LET hint == IF Contains(Head(messages), OnlyPassHint)
                   THEN <<LogEvent("warning", "Service doesn't need a user wordlist", <<>>, <<>>)>>
                   ELSE <<>>
       IN IF StartsWith(Head(messages), ErrorMarker)
          THEN [err |-> ErrLines("HydraError", "hydra error", <<Head(messages)>>), log |-> hint]
          ELSE LET rest == ErrorScan(Tail(messages), all)
               IN [err |-> rest.err, log |-> hint \o rest.log]

\* the error scan runs whatever the exit code is
RunningCommandScanningAlways(exitCode, stderr) ==
  LET hydraMessages == SplitLines(stderr)
      warnings == WarningLog(hydraMessages)
      scan == ErrorScan(hydraMessages, hydraMessages)
  IN IF exitCode # 0 \/ scan.err.cls = "HydraError"
     THEN [err |-> scan.err, log |-> warnings \o scan.log \o CriticalLog(scan.err)]
     ELSE [err |-> NoErr, log |-> warnings]

\* Hydra._running_command after the process has exited
RunningCommand(exitCode, stderr) ==
  LET hydraMessages == SplitLines(stderr)
      warnings == WarningLog(hydraMessages)
      scan == ErrorScan(hydraMessages, hydraMessages)
  IN IF exitCode # 0
     THEN [err |-> scan.err, log |-> warnings \o scan.log \o CriticalLog(scan.err)]
     ELSE [err |-> NoErr, log |-> warnings]

\* ------------------------------------------------------------ result parser
\* The content of an output file: bytes that are not UTF-8 (k = "badutf8"),
\* text that is not JSON, the empty file included (k = "notjson"), or a JSON
\* document (k = "json") whose top-level value has type top; an object may
\* hold a "results" member (has) of type rt, an array being the sequence
\* items.  An array element is an object (the mapping f) or a string.
FileContent(k, top, has, rt, items) ==
  [k |-> k, top |-> top, has |-> has, rt |-> rt, items |-> items]

EmptyFile == FileContent("notjson", "null", FALSE, "null", <<>>)
LoginKey == "login"
PasswordKey == "password"

\* [x[key] for x in results]: the first element that cannot be indexed ends
\* the comprehension with a TypeError (not a mapping) or a KeyError
RECURSIVE ExtractField(_, _)
ExtractField(items, key) ==
  IF items = <<>> THEN [exc |-> "none", vals |-> <<>>]
  ELSE IF Head(items).t # "obj" THEN [exc |-> "TypeError", vals |-> <<>>]
  ELSE IF key \notin DOMAIN Head(items).f THEN [exc |-> "KeyError", vals |-> <<>>]
  ELSE LET rest == ExtractField(Tail(items), key)
       IN [exc |-> rest.exc, vals |-> <<Head(items).f[key]>> \o rest.vals]

\* a mapping that keeps the first password found for a login
RECURSIVE DictZipFirstWins(_, _)
DictZipFirstWins(login, password) ==
  IF login = <<>> \/ password = <<>> THEN <<>>
  ELSE LET n == IF Len(login) < Len(password) THEN Len(login) ELSE Len(password)
           d == DictZipFirstWins(SubSeq(login, 1, n - 1), SubSeq(password, 1, n - 1))
       IN [k \in (DOMAIN d) \cup {login[n]} |-> IF k \in DOMAIN d THEN d[k] ELSE password[n]]

\* dict(zip(login, password)): the pairs are inserted in order, a later pair
\* replacing an earlier one with the same key
RECURSIVE DictZip(_, _)
DictZip(login, password) ==
  IF login = <<>> \/ password = <<>> THEN <<>>
  ELSE LET n == IF Len(login) < Len(password) THEN Len(login) ELSE Len(password)
           d == DictZip(SubSeq(login, 1, n - 1), SubSeq(password, 1, n - 1))
       IN [k \in (DOMAIN d) \cup {login[n]} |-> IF k = login[n] THEN password[n] ELSE d[k]]

ParseResult(e, value) == [err |-> e, log |-> CriticalLog(e), value |-> value]

\* HydraParser.json_opener: the exception raised, NoErr when json.load
\* returns
JsonOpener(jsonPath, content) ==
  IF content.k = "badutf8" THEN Err("UnicodeDecodeError", "invalid start byte")
  ELSE IF content.k = "notjson"
       THEN ErrPath("HydraDecodeError", "Can't open the given file", jsonPath)
  ELSE NoErr

\* the exception classes the except clause of json2dict catches
CaughtInJson2Dict == {"KeyError"}

\* the try block of json2dict on the decoded document: the exception it ends
\* with ("none" when it returns) and the mapping
Json2DictBody(content) ==
  IF content.top # "obj" THEN [exc |-> "TypeError", value |-> <<>>]
  ELSE IF ~content.has THEN [exc |-> "KeyError", value |-> <<>>]
  ELSE IF content.rt # "arr" THEN [exc |-> "TypeError", value |-> <<>>]
  ELSE LET login == ExtractField(content.items, LoginKey)
           password == ExtractField(content.items, PasswordKey)
       IN IF login.exc # "none" THEN [exc |-> login.exc, value |-> <<>>]
          ELSE IF password.exc # "none" THEN [exc |-> password.exc, value |-> <<>>]
          ELSE [exc |-> "none", value |-> DictZip(login.vals, password.vals)]

\* HydraParser.json2dict
Json2Dict(jsonPath, content) ==
  LET opened == JsonOpener(jsonPath, content)
      body == Json2DictBody(content)
  IN IF opened # NoErr THEN ParseResult(opened, <<>>)
     ELSE IF body.exc = "none" THEN ParseResult(NoErr, body.value)
     ELSE IF body.exc \in CaughtInJson2Dict
          THEN ParseResult(ErrPath("HydraDecodeError", "Couldn't parse any Hydra information", jsonPath), <<>>)
     ELSE ParseResult(Err(body.exc, "not subscriptable"), <<>>)

\* ------------------------------------------------------------------- inputs
ServiceArgs ==
  {StrV(SvcSsh), StrV(SvcSshUpper), StrV(SvcVnc), StrV(SvcIrc), StrV(SvcIrcUpper),
   StrV(SvcXyz), ListV}
PortArgs == {IntV(22), StrV(<<"2", "2">>), StrV(<<"x">>), NoneV}
WordlistArgs == {NoneV, StrV(WordlistFile), StrV(LiteralName), ListV}
UserpassArgs == {StrV(WordlistFile), ListV}
ThreadArgs ==
  {IntV(n) : n \in ThreadCeiling..MaxThreads} \cup {IntV(DefaultThreads), StrV(<<"4">>)}
ExportArgs == {StrV(ExpJson), StrV(ExpText), StrV(ExpJsonV1), StrV(ExpJsonUpper), ListV}
IgnoreArgs == {BoolV(TRUE), BoolV(FALSE), IntV(1)}
WaitArgs == {IntV(2), StrV(<<"2">>)}

CallArgs(mode, service, port, user, pass, userpass, threads, export, ignore, wait) ==
  [mode |-> mode, service |-> service, port |-> port, user |-> user, pass |-> pass,
   userpass |-> userpass, threads |-> threads, export |-> export, ignore |-> ignore,
   wait |-> wait]

NoArgs == CallArgs("none", NoneV, NoneV, NoneV, NoneV, NoneV, NoneV, NoneV, NoneV, NoneV)

\* the calls of Hydra.bruteforce explored
DualCalls ==
  {CallArgs("dual", s, p, u, w, NoneV, t, e, i, wt) :
     s \in ServiceArgs, p \in PortArgs, u \in WordlistArgs, w \in WordlistArgs,
     t \in ThreadArgs, e \in ExportArgs, i \in IgnoreArgs, wt \in WaitArgs}

\* the calls of Hydra.bruteforce_with_userpass_wordlist explored
UserpassCalls ==
  {CallArgs("userpass", s, p, NoneV, NoneV, c, t, e, i, wt) :
     s \in ServiceArgs, p \in PortArgs, c \in UserpassArgs,
     t \in ThreadArgs, e \in ExportArgs, i \in IgnoreArgs, wt \in WaitArgs}

LineWarning == <<WarningMarker, "w">>
LineErrorA == <<ErrorMarker, "a">>
LineErrorB == <<ErrorMarker, "b">>
LineInfo == <<"info">>
LineErrorInside == <<"x", ErrorMarker>>
LineHint == <<OnlyPassHint>>

\* what the tool may print, exit with and write in the behaviours of Spec
ExitCodes == {0, 1}
StderrSamples == {<<>>, <<LineWarning>>, <<LineWarning, LineErrorA>>}

ObjEntry(l, p) == [t |-> "obj", f |-> [k \in {LoginKey, PasswordKey} |-> IF k = LoginKey THEN l ELSE p]]
JsonResults(items) == FileContent("json", "obj", TRUE, "arr", items)
OutfileSamples ==
  {EmptyFile,
   JsonResults(<<ObjEntry("a", "1"), ObjEntry("b", "2")>>),
   FileContent("json", "arr", FALSE, "null", <<>>)}

\* -------------------------------------------------------------------- state
VARIABLES
  pc,            \* where the call in progress stands
  args,          \* the arguments of the call in progress
  self_threads,  \* self.threads
  fs,            \* the regular files of the filesystem (the wordlists)
  callFs,        \* fs as it was when the call was made
  tmpExists,     \* whether the temporary output file is on disk
  tmpCreated,    \* whether the call has created its temporary file
  cmd,           \* command_string
  launched,      \* whether the call has launched the external process
  exit_code,     \* exit_code
  stderr,        \* the lines the process wrote to standard error
  outfile,       \* the content of the temporary output file
  parsed,        \* whether the call has invoked HydraParser.json2dict
  json_dict,     \* json_dict
  exc,           \* the exception in flight
  outcome,       \* what the caller received
  log            \* the logging events of the call, in order

vars ==
  <<pc, args, self_threads, fs, callFs, tmpExists, tmpCreated, cmd, launched,
    exit_code, stderr, outfile, parsed, json_dict, exc, outcome, log>>

NoOutcome == [kind |-> "none", err |-> NoErr, value |-> <<>>]

\* the state of one call before it starts
CallCleared ==
  /\ args = NoArgs
  /\ callFs = {}
  /\ tmpExists = FALSE
  /\ tmpCreated = FALSE
  /\ cmd = <<>>
  /\ launched = FALSE
  /\ exit_code = 0
  /\ stderr = <<>>
  /\ outfile = EmptyFile
  /\ parsed = FALSE
  /\ json_dict = <<>>
  /\ exc = NoErr
  /\ outcome = NoOutcome
  /\ log = <<>>

\* a Hydra object after __init__
Init ==
  /\ pc = "idle"
  /\ self_threads = DefaultThreads
  /\ fs \in SUBSET Files
  /\ CallCleared

\* the argument checks of an entry point: they end with an exception or go
\* on to the with block
EnterCall(a) ==
  LET r == Validate(a, self_threads, fs)
  IN /\ args' = a
     /\ callFs' = fs
     /\ self_threads' = r.threads
     /\ log' = r.log
     /\ exc' = r.err
     /\ pc' = IF r.err # NoErr THEN "raising" ELSE "validated"
     /\ UNCHANGED <<fs, tmpExists, tmpCreated, cmd, launched, exit_code, stderr,
                    outfile, parsed, json_dict, outcome>>

\* Hydra.bruteforce is called
Bruteforce == pc = "idle" /\ \E a \in DualCalls : EnterCall(a)

\* Hydra.bruteforce_with_userpass_wordlist is called
BruteforceWithUserpassWordlist == pc = "idle" /\ \E a \in UserpassCalls : EnterCall(a)

\* with tempfile.NamedTemporaryFile() as tmp_file: the file is created, empty
EnterWith ==
  /\ pc = "validated"
  /\ tmpExists' = TRUE
  /\ tmpCreated' = TRUE
  /\ outfile' = EmptyFile
  /\ pc' = "tmp"
  /\ UNCHANGED <<args, self_threads, fs, callFs, cmd, launched, exit_code, stderr,
                 parsed, json_dict, exc, outcome, log>>

\* the string generator runs
GenerateCommand ==
  LET r == BuildCommand(args, fs)
  IN /\ pc = "tmp"
     /\ log' = log \o r.log
     /\ exc' = r.err
     /\ cmd' = r.cmd
     /\ pc' = IF r.err # NoErr THEN "raising" ELSE "built"
     /\ UNCHANGED <<args, self_threads, fs, callFs, tmpExists, tmpCreated, launched,
                    exit_code, stderr, outfile, parsed, json_dict, outcome>>

\* _running_command logs the command and starts the process
Launch ==
  /\ pc = "built"
  /\ log' = Append(log, LogEvent("info", "Running thc-hydra with following command", <<>>, <<>>))
  /\ launched' = TRUE
  /\ pc' = "running"
  /\ UNCHANGED <<args, self_threads, fs, callFs, tmpExists, tmpCreated, cmd,
                 exit_code, stderr, outfile, parsed, json_dict, exc, outcome>>

\* the external process writes its output file and its diagnostics and
\* exits; hydra_command.wait() returns
ProcessExit ==
  /\ pc = "running"
  /\ exit_code' \in ExitCodes
  /\ stderr' \in StderrSamples
  /\ outfile' \in OutfileSamples
  /\ pc' = "exited"
  /\ UNCHANGED <<args, self_threads, fs, callFs, tmpExists, tmpCreated, cmd,
                 launched, parsed, json_dict, exc, outcome, log>>

\* _running_command scans the captured lines
ScanMessages ==
  LET r == RunningCommand(exit_code, stderr)
  IN /\ pc = "exited"
     /\ log' = log \o r.log
     /\ exc' = r.err
     /\ pc' = IF r.err # NoErr THEN "raising" ELSE "ran"
     /\ UNCHANGED <<args, self_threads, fs, callFs, tmpExists, tmpCreated, cmd,
                    launched, exit_code, stderr, outfile, parsed, json_dict, outcome>>

\* json_dict = HydraParser.json2dict(tmp_file.name)
Parse ==
  LET r == Json2Dict(TmpName, outfile)
  IN /\ pc = "ran"
     /\ parsed' = TRUE
     /\ log' = log \o r.log
     /\ exc' = r.err
     /\ json_dict' = r.value
     /\ pc' = IF r.err # NoErr THEN "raising" ELSE "parsed"
     /\ UNCHANGED <<args, self_threads, fs, callFs, tmpExists, tmpCreated, cmd,
                    launched, exit_code, stderr, outfile, outcome>>

\* the file is deleted only when the block ends normally
TmpFileExitLeak(exists, raising) == exists /\ raising

\* NamedTemporaryFile.__exit__: the file is closed and deleted, whether the
\* block ends normally (raising = FALSE) or with an exception
TmpFileExit(exists, raising) == FALSE

\* the with block is left and json_dict is returned
Return ==
  /\ pc = "parsed"
  /\ tmpExists' = TmpFileExit(tmpExists, FALSE)
  /\ outcome' = [kind |-> "returned", err |-> NoErr, value |-> json_dict]
  /\ pc' = "done"
  /\ UNCHANGED <<args, self_threads, fs, callFs, tmpCreated, cmd, launched,
                 exit_code, stderr, outfile, parsed, json_dict, exc, log>>

\* the exception leaves the with block, if it was raised inside, and reaches
\* the caller
Propagate ==
  /\ pc = "raising"
  /\ tmpExists' = IF tmpCreated THEN TmpFileExit(tmpExists, TRUE) ELSE tmpExists
  /\ outcome' = [kind |-> "raised", err |-> exc, value |-> <<>>]
  /\ pc' = "done"
  /\ UNCHANGED <<args, self_threads, fs, callFs, tmpCreated, cmd, launched,
                 exit_code, stderr, outfile, parsed, json_dict, exc, log>>

\* the caller is done with the call: its locals are gone, the object stays
Forget ==
  /\ pc = "done"
  /\ pc' = "idle"
  /\ args' = NoArgs
  /\ callFs' = {}
  /\ tmpCreated' = FALSE
  /\ cmd' = <<>>
  /\ launched' = FALSE
  /\ exit_code' = 0
  /\ stderr' = <<>>
  /\ outfile' = EmptyFile
  /\ parsed' = FALSE
  /\ json_dict' = <<>>
  /\ exc' = NoErr
  /\ outcome' = NoOutcome
  /\ log' = <<>>
  /\ UNCHANGED <<self_threads, fs, tmpExists>>

\* another program creates or removes a wordlist file, between two calls or
\* between the argument checks and the string generator of a call
FsChange ==
  /\ pc \in {"idle", "tmp"}
  /\ fs' \in (SUBSET Files) \ {fs}
  /\ UNCHANGED <<pc, args, self_threads, callFs, tmpExists, tmpCreated, cmd,
                 launched, exit_code, stderr, outfile, parsed, json_dict, exc,
                 outcome, log>>

Next ==
  \/ Bruteforce
  \/ BruteforceWithUserpassWordlist
  \/ EnterWith
  \/ GenerateCommand
  \/ Launch
  \/ ProcessExit
  \/ ScanMessages
  \/ Parse
  \/ Return
  \/ Propagate
  \/ Forget
  \/ FsChange

Spec == Init /\ [][Next]_vars

\* ------------------------------------------ the runner on bounded diagnostics
\* the sequences over S of length at most n
RECURSIVE SeqsUpTo(_, _)
SeqsUpTo(S, n) ==
  IF n = 0 THEN {<<>>}
  ELSE LET shorter == SeqsUpTo(S, n - 1)
       IN shorter \cup {Append(q, x) : q \in shorter, x \in S}

RunnerLines == {LineWarning, LineErrorA, LineErrorB, LineInfo, LineErrorInside, LineHint}
RunnerExitCodes == {0, 1, -9}

\* a call of bruteforce that reaches the launch
SampleCall ==
  CallArgs("dual", StrV(SvcSshUpper), StrV(<<"2", "2">>), StrV(WordlistFile),
           StrV(LiteralName), NoneV, IntV(ThreadCeiling), StrV(ExpJson), BoolV(TRUE), IntV(2))

\* the state of SampleCall when its process is running
SampleRunning ==
  /\ args = SampleCall
  /\ self_threads = Validate(SampleCall, DefaultThreads, Files).threads
  /\ fs = Files
  /\ callFs = Files
  /\ tmpExists = TRUE
  /\ tmpCreated = TRUE
  /\ cmd = BuildCommand(SampleCall, Files).cmd
  /\ launched = TRUE
  /\ parsed = FALSE
  /\ json_dict = <<>>
  /\ exc = NoErr
  /\ outcome = NoOutcome
  /\ log = Validate(SampleCall, DefaultThreads, Files).log
           \o BuildCommand(SampleCall, Files).log
           \o <<LogEvent("info", "Running thc-hydra with following command", <<>>, <<>>)>>

\* the process of SampleCall has exited, with any code and any diagnostics
InitRunner ==
  /\ pc = "exited"
  /\ SampleRunning
  /\ exit_code \in RunnerExitCodes
  /\ stderr \in SeqsUpTo(RunnerLines, MaxLines)
  /\ outfile \in OutfileSamples

NextRunner == ScanMessages \/ Parse \/ Return \/ Propagate

SpecRunner == InitRunner /\ [][NextRunner]_vars

\* ---------------------------------------------- the parser on bounded files
Logins == {"a", "b"}
Passwords == {"1", "2"}

\* the elements of a results array: objects with both keys, with one of
\* them, with none, and an element that is a string
ParserEntries ==
  {ObjEntry(l, p) : l \in Logins, p \in Passwords}
  \cup {[t |-> "obj", f |-> [k \in {LoginKey} |-> "a"]],
        [t |-> "obj", f |-> [k \in {PasswordKey} |-> "1"]],
        [t |-> "obj", f |-> [k \in {} |-> ""]],
        [t |-> "str", f |-> [k \in {} |-> ""]]}

ParserFiles ==
  {JsonResults(items) : items \in SeqsUpTo(ParserEntries, MaxEntries)}
  \cup {EmptyFile,
        FileContent("badutf8", "null", FALSE, "null", <<>>),
        FileContent("json", "arr", FALSE, "null", <<>>),
        FileContent("json", "null", FALSE, "null", <<>>),
        FileContent("json", "obj", FALSE, "null", <<>>),
        FileContent("json", "obj", TRUE, "null", <<>>)}

\* the process of SampleCall has exited with code zero and left any file
InitParser ==
  /\ pc = "ran"
  /\ SampleRunning
  /\ exit_code = 0
  /\ stderr = <<>>
  /\ outfile \in ParserFiles

NextParser == Parse \/ Return \/ Propagate

SpecParser == InitParser /\ [][NextParser]_vars

\* =================================================================== claims
\* the token that follows flag in the command line built, <<>> if none does
ValuesAfter(flag) ==
  {cmd[i + 1] : i \in {j \in 1..(Len(cmd) - 1) : cmd[j] = Flag(flag)}}

\* no check of the call in progress that raises TypeError fires: the
\* isinstance checks and, in the combined mode, the existence check of the
\* wordlist path
ArgsPassTypeChecks ==
  /\ args.mode \in {"dual", "userpass"}
  /\ args.mode = "dual" => args.user.t \in {"none", "str"} /\ args.pass.t \in {"none", "str"}
  /\ args.mode = "userpass" => args.userpass.t = "str" /\ AbsPath(args.userpass.v) \in callFs
  /\ args.service.t = "str"
  /\ args.port.t \in {"str", "int", "bool"}
  /\ args.threads.t \in {"int", "bool"}
  /\ args.export.t = "str"
  /\ args.ignore.t = "bool"
  /\ args.wait.t \in {"int", "bool"}

\* the call in progress passes every check that comes before the service
\* membership test
ArgsReachServiceCheck ==
  /\ ArgsPassTypeChecks
  /\ args.port.t = "str" => args.port.v \in {<<"2", "2">>}
  /\ args.export.v \in {ExpText, ExpJson, ExpJsonV1}

ServiceErrors == {"HydraUnsupportedServiceError", "HydraUnknownServiceError"}

\* C1: for every requested thread count >= 65 the value after -t in the
\* command line built is 64, and for every count <= 64 it is the requested
\* value.
C1_EffectiveThreadsClamped ==
  cmd # <<>> =>
    ValuesAfter("-t") =
      {IntTok(IF args.threads.n >= 65 THEN 64 ELSE args.threads.n)}

\* C2: a call of bruteforce_with_userpass_wordlist whose wordlist path is a
\* string that names no existing file fails with HydraFileDoesNotExist and
\* launches no process.
C2_MissingCombinedWordlistIsFileNotFound ==
  (/\ pc = "done"
   /\ args.mode = "userpass"
   /\ args.userpass.t = "str"
   /\ AbsPath(args.userpass.v) \notin callFs)
  => (/\ outcome.kind = "raised"
      /\ outcome.err.cls = "HydraFileDoesNotExist"
      /\ ~launched)

\* C3: when a call has returned or raised, on every exit path, the temporary
\* output file it created is no longer on disk.
C3_TmpFileDeletedOnExit == pc = "done" => ~tmpExists

\* a call that created its temporary file and ended with a tool error
C3_Witness ==
  /\ pc = "done"
  /\ tmpCreated
  /\ launched
  /\ outcome.kind = "raised"
  /\ outcome.err.cls = "HydraError"
  /\ ~tmpExists

\* the pairs of a capital letter and its small letter
CasePairs ==
  {<<"S", "s">>, <<"H", "h">>, <<"V", "v">>, <<"N", "n">>, <<"C", "c">>,
   <<"I", "i">>, <<"R", "r">>, <<"X", "x">>, <<"Y", "y">>, <<"Z", "z">>}

\* two names that differ in letter case only
SameUpToCase(s1, s2) ==
  /\ Len(s1) = Len(s2)
  /\ \A i \in 1..Len(s1) :
       \/ s1[i] = s2[i]
       \/ <<s1[i], s2[i]>> \in CasePairs
       \/ <<s2[i], s1[i]>> \in CasePairs

\* the argument checks of the call in progress are over
ChecksOver == pc \in {"raising", "validated", "tmp", "built", "running", "exited", "ran", "parsed", "done"}

\* the exception the argument checks of the call in progress ended with
CheckError == IF tmpCreated THEN NoErr ELSE exc

\* C4: a service name that passes the earlier checks is classified on its
\* lower-cased form: in the supported list, no service error; not supported
\* and in the unsupported list, HydraUnsupportedServiceError; in neither,
\* HydraUnknownServiceError.  A name that differs in letter case only gives
\* the same result of the checks, and both service errors come before the
\* temporary file and the process.
C4_ServiceClassification ==
  (ChecksOver /\ ArgsReachServiceCheck) =>
    LET lowered == Lower(args.service.v)
        supported == InList(lowered, SupportedServices)
        unsupported == InList(lowered, UnsupportedServices)
    IN /\ supported => CheckError = NoErr
       /\ (~supported /\ unsupported) =>
            /\ CheckError.cls = "HydraUnsupportedServiceError"
            /\ ~tmpCreated /\ ~launched
       /\ (~supported /\ ~unsupported) =>
            /\ CheckError.cls = "HydraUnknownServiceError"
            /\ ~tmpCreated /\ ~launched
       /\ exc.cls \in ServiceErrors => ~tmpCreated /\ ~launched
       /\ (pc = "done" /\ CheckError # NoErr) =>
            outcome.kind = "raised" /\ outcome.err = CheckError
       /\ \A other \in ServiceArgs :
            (other.t = "str" /\ SameUpToCase(other.v, args.service.v)) =>
              Validate([args EXCEPT !.service = other], self_threads, callFs).err = CheckError

\* the call bruteforce("SSH", ...) has passed the service check and gone on
C4_Witness ==
  /\ pc = "done"
  /\ ArgsReachServiceCheck
  /\ args.service.v = SvcSshUpper
  /\ tmpCreated
  /\ outcome.kind = "returned"

\* C5: an export type outside {"text", "json", "jsonv1"}, tested as given, in
\* a call whose arguments pass the type checks, makes the call fail with
\* ValueError before the temporary file is created and before any process
\* is launched.
C5_InvalidExportTypeRejected ==
  (/\ ChecksOver
   /\ ArgsPassTypeChecks
   /\ args.export.v \notin {ExpText, ExpJson, ExpJsonV1})
  => (/\ exc.cls = "ValueError"
      /\ pc \in {"raising", "done"}
      /\ ~tmpCreated
      /\ ~launched
      /\ pc = "done" => outcome.kind = "raised" /\ outcome.err.cls = "ValueError")

\* a call with export type "JSON" and a valid port has failed on the export
\* type
C5_Witness ==
  /\ pc = "done"
  /\ ArgsPassTypeChecks
  /\ args.export.v = ExpJsonUpper
  /\ args.port.t = "int"
  /\ outcome.kind = "raised"
  /\ outcome.err.cls = "ValueError"
  /\ outcome.err.lines = <<ExpJsonUpper>>

\* C6: a call of bruteforce for a supported service that needs a user name,
\* with both wordlists None and every other argument valid, fails with
\* HydraNoWordlistGiven and launches no process.
C6_NoWordlistGiven ==
  (/\ pc = "done"
   /\ args.mode = "dual"
   /\ ArgsReachServiceCheck
   /\ InList(Lower(args.service.v), SupportedServices)
   /\ ~InList(Lower(args.service.v), ServiceWithoutUser)
   /\ args.user.t = "none"
   /\ args.pass.t = "none")
  => (/\ outcome.kind = "raised"
      /\ outcome.err.cls = "HydraNoWordlistGiven"
      /\ ~launched
      /\ cmd = <<>>)

\* bruteforce("ssh", 22) has failed for want of a wordlist
C6_Witness ==
  /\ pc = "done"
  /\ args.mode = "dual"
  /\ ArgsReachServiceCheck
  /\ args.service.v = SvcSsh
  /\ args.user.t = "none"
  /\ args.pass.t = "none"
  /\ tmpCreated
  /\ outcome.err.cls = "HydraNoWordlistGiven"

\* the exception classes of src/errors/errors.py
HydraFailureClasses ==
  {"HydraError", "UnknownHydraError", "HydraDecodeError",
   "HydraUnsupportedServiceError", "HydraUnknownServiceError",
   "HydraFileDoesNotExist", "HydraNoWordlistGiven"}

\* the log holds an event carrying the message of the exception in flight
ExcLogged ==
  \E i \in 1..Len(log) :
    log[i].text = exc.text /\ log[i].lines = exc.lines /\ log[i].path = exc.path

\* C7 as stated: every error that makes a call fail, the invalid-argument
\* TypeError and ValueError included, has a log event before it reaches the
\* caller.
C7_EveryErrorLogged == pc = "raising" => ExcLogged

\* C7 as amended: every failure raised as one of the Hydra exception classes
\* has been logged at critical level, as the last event of the log, while it
\* is still in flight, and reaches the caller unchanged; the TypeError and
\* ValueError of the argument checks reach the caller with no log event for
\* them.
C7_HydraErrorsLogged ==
  /\ exc # NoErr => pc \in {"raising", "done"}
  /\ (pc \in {"raising", "done"} /\ exc.cls \in HydraFailureClasses) =>
       /\ Len(log) > 0
       /\ log[Len(log)] = LogEvent("critical", exc.text, exc.lines, exc.path)
  /\ (pc \in {"raising", "done"} /\ ~tmpCreated /\ exc.cls \in {"TypeError", "ValueError"}) =>
       /\ ~ExcLogged
       /\ \A i \in 1..Len(log) : log[i].level # "critical"
  /\ pc = "done" =>
       IF exc # NoErr THEN outcome.kind = "raised" /\ outcome.err = exc
       ELSE outcome.kind = "returned"

\* a file-not-found failure raised by the string generator is in flight and
\* logged
C7_Witness ==
  /\ pc = "raising"
  /\ exc.cls = "HydraFileDoesNotExist"
  /\ ExcLogged
  /\ log[Len(log)].level = "critical"

\* the captured lines that begin with the error marker
ErrorLineIndexes == {i \in 1..Len(stderr) : Len(stderr[i]) > 0 /\ stderr[i][1] = "[ERROR]"}

FirstErrorLine ==
  stderr[CHOOSE i \in ErrorLineIndexes : \A j \in ErrorLineIndexes : i <= j]

IsNoWarningLine(line) == ~(Len(line) > 0 /\ line[1] = "[WARNING]")

\* C8: after a non-zero exit the call fails without invoking the parser: with
\* HydraError carrying the first captured line that begins with "[ERROR]" if
\* there is one, else with UnknownHydraError carrying all captured lines; the
\* same class is raised when the "[WARNING]" lines are taken away.
C8_NonZeroExitClassified ==
  (pc # "exited" /\ exit_code # 0) =>
    /\ pc \in {"raising", "done"}
    /\ ~parsed
    /\ ErrorLineIndexes # {} =>
         exc.cls = "HydraError" /\ exc.lines = <<FirstErrorLine>>
    /\ ErrorLineIndexes = {} =>
         exc.cls = "UnknownHydraError" /\ SubSeq(exc.lines, 1, Len(stderr)) = stderr
    /\ RunningCommand(exit_code, SelectSeq(stderr, IsNoWarningLine)).err.cls = exc.cls
    /\ pc = "done" => outcome.kind = "raised" /\ outcome.err = exc

\* a warning, then a line holding the marker inside, then an error line: the
\* call has failed with the error line
C8_Witness ==
  /\ pc = "done"
  /\ exit_code # 0
  /\ stderr = <<LineWarning, LineErrorInside, LineErrorB>>
  /\ outcome.kind = "raised"
  /\ outcome.err.cls = "HydraError"
  /\ outcome.err.lines = <<LineErrorB>>

\* the output file is a JSON object whose results array holds objects with
\* a login and a password
WellFormedOutfile ==
  /\ outfile.k = "json" /\ outfile.top = "obj" /\ outfile.has /\ outfile.rt = "arr"
  /\ \A i \in 1..Len(outfile.items) :
       /\ outfile.items[i].t = "obj"
       /\ {"login", "password"} \subseteq DOMAIN outfile.items[i].f

\* C9: on a well-formed output file json2dict returns the mapping with one
\* key per distinct login, each login mapped to the password of the last
\* entry that holds it.
C9_LastWriteWins ==
  (parsed /\ WellFormedOutfile) =>
    LET items == outfile.items
    IN /\ exc = NoErr
       /\ pc \in {"parsed", "done"}
       /\ DOMAIN json_dict = {items[i].f["login"] : i \in 1..Len(items)}
       /\ \A i \in 1..Len(items) :
            (\A j \in (i + 1)..Len(items) : items[j].f["login"] # items[i].f["login"])
              => json_dict[items[i].f["login"]] = items[i].f["password"]
       /\ pc = "done" => outcome.kind = "returned" /\ outcome.value = json_dict

\* login "a" is found twice, with password "1" and then "2": the caller
\* holds "2"
C9_Witness ==
  /\ pc = "done"
  /\ outfile = JsonResults(<<ObjEntry("a", "1"), ObjEntry("b", "1"), ObjEntry("a", "2")>>)
  /\ outcome.kind = "returned"
  /\ outcome.value = [k \in {"a", "b"} |-> IF k = "a" THEN "2" ELSE "1"]

FlagCount(flag) == Cardinality({i \in 1..Len(cmd) : cmd[i] = Flag(flag)})

\* the string generator of the call in progress has run
BuildOver == tmpCreated /\ pc # "tmp"

\* the exception the string generator of the call in progress ended with
BuildError == IF launched THEN NoErr ELSE exc

\* the call in progress is a call of bruteforce for a service that needs a
\* user name
DualWithUser ==
  /\ args.mode = "dual"
  /\ ~InList(Lower(args.service.v), ServiceWithoutUser)

\* C11: in a command line built by bruteforce for a service that needs a
\* user name, a user parameter that names an existing file follows -L and
\* -l is absent, one that names no file follows -l and -L is absent; the
\* same for the password parameter with -P and -p; one flag of each pair
\* stands in the command line, once.
C11_PathOrLiteral ==
  (cmd # <<>> /\ DualWithUser) =>
    /\ args.user.t = "str" /\ args.pass.t = "str"
    /\ FlagCount("-L") + FlagCount("-l") = 1
    /\ FlagCount("-P") + FlagCount("-p") = 1
    /\ IF (<<"/", "home">> \o args.user.v) \in fs
       THEN ValuesAfter("-L") = {PathTok(args.user.v)} /\ FlagCount("-l") = 0
       ELSE ValuesAfter("-l") = {PathTok(args.user.v)} /\ FlagCount("-L") = 0
    /\ IF (<<"/", "home">> \o args.pass.v) \in fs
       THEN ValuesAfter("-P") = {PathTok(args.pass.v)} /\ FlagCount("-p") = 0
       ELSE ValuesAfter("-p") = {PathTok(args.pass.v)} /\ FlagCount("-P") = 0

\* a command line with the user parameter as a wordlist and the password
\* parameter as a literal
C11_Witness ==
  /\ pc = "built"
  /\ DualWithUser
  /\ args.user.v = WordlistFile
  /\ args.pass.v = LiteralName
  /\ AbsPath(WordlistFile) \in fs
  /\ ValuesAfter("-L") = {PathTok(WordlistFile)}
  /\ ValuesAfter("-p") = {PathTok(LiteralName)}

\* C12: in bruteforce, for a service of the services-without-username list
\* a missing user parameter is no error and neither -L nor -l stands in the
\* command line, whatever the user parameter; a missing password parameter
\* is fatal with HydraNoWordlistGiven for every service; for the other
\* services a missing user parameter is fatal with HydraNoWordlistGiven and
\* is the failure reported when the password is missing too.
C12_UsernameExemption ==
  (BuildOver /\ args.mode = "dual") =>
    /\ (~DualWithUser /\ args.pass.t # "none") =>
         /\ BuildError = NoErr
         /\ cmd # <<>>
         /\ FlagCount("-L") = 0 /\ FlagCount("-l") = 0
    /\ args.pass.t = "none" =>
         /\ BuildError.cls = "HydraNoWordlistGiven"
         /\ cmd = <<>> /\ ~launched
    /\ (~DualWithUser /\ args.pass.t = "none") =>
         BuildError.text = "pass_wordlist is None"
    /\ (DualWithUser /\ args.user.t = "none") =>
         /\ BuildError.cls = "HydraNoWordlistGiven"
         /\ BuildError.text = "user_wordlist is None"
         /\ cmd = <<>> /\ ~launched
    /\ (DualWithUser /\ args.user.t # "none" /\ args.pass.t = "none") =>
         BuildError.text = "pass_wordlist is None"

\* a command line for vnc, called with a user wordlist, that holds no user
\* flag
C12_Witness ==
  /\ pc = "built"
  /\ args.mode = "dual"
  /\ Lower(args.service.v) = SvcVnc
  /\ args.user.v = WordlistFile
  /\ AbsPath(WordlistFile) \in fs
  /\ FlagCount("-L") = 0 /\ FlagCount("-l") = 0
  /\ FlagCount("-P") = 1

\* what holds of the call in progress at every moment: the parser has run
\* only after an exit with code zero, it has run in every call that ended
\* after an exit with code zero, a mapping has reached the caller only after
\* a parse that succeeded, and a failure carries no mapping
C13_StateOrder ==
  /\ tmpCreated => args.mode \in {"dual", "userpass"}
  /\ cmd # <<>> => tmpCreated
  /\ launched => cmd # <<>>
  /\ pc \in {"exited", "ran", "parsed"} => launched
  /\ pc \in {"tmp", "built", "running", "exited", "ran", "parsed"} => tmpExists
  /\ pc \in {"ran", "parsed"} => exit_code = 0 /\ exc = NoErr
  /\ parsed => launched /\ exit_code = 0
  /\ (launched /\ exit_code # 0) => ~parsed
  /\ (launched /\ pc \in {"raising", "done"} /\ exit_code = 0) => parsed
  /\ outcome.kind = "returned" =>
       /\ pc = "done" /\ parsed /\ exit_code = 0 /\ exc = NoErr
       /\ outcome.value = json_dict
       /\ ~tmpExists
  /\ outcome.kind = "raised" =>
       /\ pc = "done" /\ outcome.value = <<>> /\ json_dict = <<>>
       /\ ~tmpExists

\* what holds of every step of a call: each stage starts from the stage
\* before it
C13_StepOrder ==
  /\ (tmpCreated' /\ ~tmpCreated) => pc = "validated" /\ exc = NoErr /\ cmd = <<>>
  /\ (cmd' # <<>> /\ cmd = <<>>) => pc = "tmp" /\ tmpExists /\ ~launched
  /\ (launched' /\ ~launched) => pc = "built" /\ tmpExists /\ ~parsed
  /\ (pc' = "exited" /\ pc # "exited") => pc = "running" /\ launched /\ ~parsed
  /\ (parsed' /\ ~parsed) => pc = "ran" /\ exit_code = 0 /\ tmpExists
  /\ (tmpExists /\ ~tmpExists') => pc \in {"parsed", "raising"} /\ pc' = "done"
  /\ (outcome'.kind = "returned" /\ outcome.kind # "returned") =>
       pc = "parsed" /\ parsed /\ tmpExists /\ outcome'.value = json_dict

\* C13: within one call the steps come in the order validation, creation of
\* the temporary file, command building, launch, exit, parse, deletion,
\* return; the parser runs only after the process has exited with code
\* zero, and then always, whatever the captured lines hold; a mapping
\* reaches the caller only after an exit with code zero and a parse that
\* succeeded, and a failure yields no mapping.
C13_FixedOrder == [](C13_StateOrder) /\ [][C13_StepOrder]_vars

\* a call whose process printed a warning and an error line and exited with
\* code zero has parsed the output file and returned its mapping
C13_Witness ==
  /\ pc = "done"
  /\ exit_code = 0
  /\ stderr = <<LineWarning, LineErrorA>>
  /\ parsed
  /\ outcome.kind = "returned"
  /\ DOMAIN outcome.value = {"a", "b"}

\* what the call in progress gives on an object fresh out of __init__, in
\* the environment the call has met: the files found by the argument checks
\* and by the string generator, the exit code, the captured lines and the
\* output file
FreshChecks == Validate(args, DefaultThreads, callFs)
FreshBuild == BuildCommand(args, fs)
FreshRun == RunningCommand(exit_code, stderr)
FreshParse == Json2Dict(TmpName, outfile)

Raised(e) == [kind |-> "raised", err |-> e, value |-> <<>>]

FreshOutcome ==
  IF FreshChecks.err # NoErr THEN Raised(FreshChecks.err)
  ELSE IF FreshBuild.err # NoErr THEN Raised(FreshBuild.err)
  ELSE IF FreshRun.err # NoErr THEN Raised(FreshRun.err)
  ELSE IF FreshParse.err # NoErr THEN Raised(FreshParse.err)
  ELSE [kind |-> "returned", err |-> NoErr, value |-> FreshParse.value]

FreshCmd == IF FreshChecks.err # NoErr THEN <<>> ELSE FreshBuild.cmd

\* C14: whatever calls came before on the same object, a call ends as it
\* would on a fresh object: the command line built and the error raised or
\* the mapping returned follow from its arguments and the environment
\* alone.  A call that passes the checks before the clamp writes
\* self.threads, also when the service check then fails, and the value
\* written follows from its own thread count.
C14_CallsIndependent ==
  pc = "done" =>
    /\ outcome = FreshOutcome
    /\ cmd = FreshCmd
    /\ ArgsReachServiceCheck =>
         self_threads = (IF args.threads.n >= 65 THEN 64 ELSE args.threads.n)

\* a call that failed before the clamp has ended on an object whose threads
\* field holds the 64 an earlier call wrote
C14_Witness ==
  /\ pc = "done"
  /\ self_threads = ThreadCeiling
  /\ args.mode = "dual"
  /\ args.threads.t = "str"
  /\ outcome.kind = "raised"
  /\ outcome.err = InvalidType("threads")

====
